---------------------------- MODULE Spec2Model ----------------------------
(***************************************************************************)
(* Model of the PDF documentation pipeline (scripts/extract_pdf.py,        *)
(* scripts/segment_sections.py, scripts/export_docx.py).                   *)
(*                                                                         *)
(* A Python str is a sequence of one-character strings.  Every stage is a  *)
(* run of one function: `input` holds its arguments, `pc` its position,    *)
(* `out` the values it has returned or is building, `idx` its loop index   *)
(* and `disk` the files and directories it reads and writes.               *)
(***************************************************************************)
EXTENDS Integers, Sequences, FiniteSets, TLC

VARIABLES pc, input, out, idx, disk

vars == <<pc, input, out, idx, disk>>

(***************************************************************************)
(* Characters and the character classes of Python's re and str.            *)
(***************************************************************************)
NL == "\n"

Digits == {"0", "1", "2", "3", "4", "5", "6", "7", "8", "9"}

UpperSeq ==
    <<"A", "B", "C", "D", "E", "F", "G", "H", "I", "J", "K", "L", "M",
      "N", "O", "P", "Q", "R", "S", "T", "U", "V", "W", "X", "Y", "Z">>

LowerSeq ==
    <<"a", "b", "c", "d", "e", "f", "g", "h", "i", "j", "k", "l", "m",
      "n", "o", "p", "q", "r", "s", "t", "u", "v", "w", "x", "y", "z">>

Upper == {UpperSeq[k] : k \in 1..26}

Lower == {LowerSeq[k] : k \in 1..26}

\* \s of a str pattern (the ASCII part)
Whitespace == {" ", "\t", "\n", "\r", "\f"}

IsSpace(c) == c \in Whitespace

\* \w of a str pattern (the ASCII part)
IsWord(c) == c \in Digits \cup Upper \cup Lower \cup {"_"}

\* re.IGNORECASE compares characters by their lower-case form
ToLower(c) ==
    IF c \in Upper THEN LowerSeq[CHOOSE k \in 1..26 : UpperSeq[k] = c] ELSE c

LowerStr(s) == [k \in 1..Len(s) |-> ToLower(s[k])]

\* every string of at most n characters of the alphabet A
Strings(A, n) == UNION {[1..k -> A] : k \in 0..n}

(***************************************************************************)
(* str methods                                                             *)
(***************************************************************************)
RECURSIVE LStrip(_)
LStrip(s) ==
    IF s # <<>> /\ IsSpace(Head(s)) THEN LStrip(Tail(s)) ELSE s

RECURSIVE RStrip(_)
RStrip(s) ==
    IF s # <<>> /\ IsSpace(s[Len(s)])
    THEN RStrip(SubSeq(s, 1, Len(s) - 1))
    ELSE s

Strip(s) == LStrip(RStrip(s))

\* the first position p >= from with s[p] = c, or 0
IndexFrom(s, c, from) ==
    LET hits == {p \in from..Len(s) : s[p] = c}
    IN  IF hits = {} THEN 0 ELSE CHOOSE p \in hits : \A q \in hits : p <= q

\* s.split('\n'): always at least one line
RECURSIVE SplitLines(_)
SplitLines(s) ==
    LET p == IndexFrom(s, NL, 1)
    IN  IF p = 0
        THEN <<s>>
        ELSE <<SubSeq(s, 1, p - 1)>> \o SplitLines(SubSeq(s, p + 1, Len(s)))

\* sep.join(parts)
RECURSIVE Join(_, _)
Join(parts, sep) ==
    IF parts = <<>> THEN <<>>
    ELSE IF Len(parts) = 1 THEN parts[1]
    ELSE parts[1] \o sep \o Join(Tail(parts), sep)

\* the end of the maximal run of characters satisfying the class from position
\* p on (p - 1 when s[p] is not in the class)
RECURSIVE RunEnd(_, _, _)
RunEnd(s, p, class) ==
    IF p <= Len(s) /\ s[p] \in class THEN RunEnd(s, p + 1, class) ELSE p - 1

WordChars == Digits \cup Upper \cup Lower \cup {"_"}

(***************************************************************************)
(* extract_pdf.normalize_text                                              *)
(***************************************************************************)
\* re.sub(r'(\w+)-\s*\n\s*(\w+)', r'\1\2', text) from position p on.  \w+ is
\* greedy and is followed by a non-word character, so a match that starts at
\* p takes the whole word run; \s*\n\s* takes the whole whitespace run, which
\* must hold a newline; the second \w+ takes the whole next word run.  The
\* scan resumes after the match, so a hyphen that directly follows the second
\* word is not joined.
RECURSIVE FixHyphenation(_, _)
FixHyphenation(s, p) ==
    IF p > Len(s) THEN <<>>
    ELSE
        LET w1   == RunEnd(s, p, WordChars)
            ws   == RunEnd(s, w1 + 2, Whitespace)
            w2   == RunEnd(s, ws + 1, WordChars)
            hit  == /\ w1 >= p
                    /\ w1 + 1 <= Len(s) /\ s[w1 + 1] = "-"
                    /\ \E q \in (w1 + 2)..ws : s[q] = NL
                    /\ w2 > ws
        IN  IF hit
            THEN SubSeq(s, p, w1) \o SubSeq(s, ws + 1, w2)
                     \o FixHyphenation(s, w2 + 1)
            ELSE <<s[p]>> \o FixHyphenation(s, p + 1)

\* re.sub(r'[ \t]+', ' ', text)
RECURSIVE CollapseSpaces(_, _)
CollapseSpaces(s, p) ==
    IF p > Len(s) THEN <<>>
    ELSE IF s[p] \in {" ", "\t"}
    THEN <<" ">> \o CollapseSpaces(s, RunEnd(s, p, {" ", "\t"}) + 1)
    ELSE <<s[p]>> \o CollapseSpaces(s, p + 1)

\* re.sub(r'\n\s*\n\s*\n+', '\n\n', text): a match starts at a newline whose
\* whitespace run holds at least three newlines and, the quantifiers being
\* greedy, ends at the last newline of that run.
RECURSIVE CollapseNewlines(_, _)
CollapseNewlines(s, p) ==
    IF p > Len(s) THEN <<>>
    ELSE
        LET e    == RunEnd(s, p, Whitespace)
            nls  == {q \in p..e : s[q] = NL}
            last == CHOOSE q \in nls : \A r \in nls : r <= q
        IN  IF s[p] = NL /\ Cardinality(nls) >= 3
            THEN <<NL, NL>> \o CollapseNewlines(s, last + 1)
            ELSE <<s[p]>> \o CollapseNewlines(s, p + 1)

\* '\n'.join(line.rstrip() for line in text.split('\n'))
RStripLines(s) ==
    LET lines == SplitLines(s)
    IN  Join([k \in 1..Len(lines) |-> RStrip(lines[k])], <<NL>>)

normalize_text(text) ==
    IF text = <<>> THEN <<>>
    ELSE Strip(RStripLines(CollapseNewlines(
             CollapseSpaces(FixHyphenation(text, 1), 1), 1)))

(***************************************************************************)
(* Specification: normalize_text applied once and then to its own result.  *)
(***************************************************************************)
NormAlphabet == {"a", "-", NL, " "}

NormMaxLen == 8

InitNormalize ==
    /\ pc = "ready"
    /\ input \in Strings(NormAlphabet, NormMaxLen)
    /\ out = <<>>
    /\ idx = 0
    /\ disk = <<>>

\* the first call, on the extracted text
Normalize ==
    /\ pc = "ready"
    /\ out' = <<normalize_text(input)>>
    /\ pc' = "normalized"
    /\ UNCHANGED <<input, idx, disk>>

\* a second call, on the result of the first
NormalizeAgain ==
    /\ pc = "normalized"
    /\ out' = Append(out, normalize_text(out[1]))
    /\ pc' = "renormalized"
    /\ UNCHANGED <<input, idx, disk>>

NextNormalize == Normalize \/ NormalizeAgain

SpecNormalize == InitNormalize /\ [][NextNormalize]_vars

\* C2: normalize_text is idempotent: normalising a normalised text changes
\* nothing, also for a word split over three lines by two hyphens.
C2_NormalizeIdempotent ==
    pc = "renormalized" => out[2] = out[1]

(***************************************************************************)
(* Regular expressions as token sequences, matched as re.match does: from  *)
(* the start of the string, with backtracking over every quantifier.       *)
(***************************************************************************)
Lit(w) == [t |-> "lit", s |-> w]

Plus(class) == [t |-> "plus", c |-> class]

Star(class) == [t |-> "star", c |-> class]

Opt(class) == [t |-> "opt", c |-> class]

One(class) == [t |-> "one", c |-> class]

\* $ : the end of the string, or just before a final newline
End == [t |-> "end"]

\* whether pattern toks[k..] matches s from position p on; ic is re.IGNORECASE
RECURSIVE ReMatch(_, _, _, _, _)
ReMatch(toks, k, s, p, ic) ==
    IF k > Len(toks) THEN TRUE
    ELSE
        LET tok == toks[k]
            same(a, b) == IF ic THEN ToLower(a) = ToLower(b) ELSE a = b
        IN  CASE tok.t = "lit" ->
                     /\ p + Len(tok.s) - 1 <= Len(s)
                     /\ \A j \in 1..Len(tok.s) : same(s[p + j - 1], tok.s[j])
                     /\ ReMatch(toks, k + 1, s, p + Len(tok.s), ic)
              [] tok.t = "plus" ->
                     \E e \in p..RunEnd(s, p, tok.c) :
                         ReMatch(toks, k + 1, s, e + 1, ic)
              [] tok.t = "star" ->
                     \E e \in (p - 1)..RunEnd(s, p, tok.c) :
                         ReMatch(toks, k + 1, s, e + 1, ic)
              [] tok.t = "opt" ->
                     \/ /\ p <= Len(s) /\ s[p] \in tok.c
                        /\ ReMatch(toks, k + 1, s, p + 1, ic)
                     \/ ReMatch(toks, k + 1, s, p, ic)
              [] tok.t = "one" ->
                     /\ p <= Len(s) /\ s[p] \in tok.c
                     /\ ReMatch(toks, k + 1, s, p + 1, ic)
              [] tok.t = "end" ->
                     /\ \/ p = Len(s) + 1
                        \/ p = Len(s) /\ s[p] = NL
                     /\ k = Len(toks)

(***************************************************************************)
(* extract_pdf.SECTION_PATTERNS                                            *)
(***************************************************************************)
W_Abstract ==
    <<"A", "b", "s", "t", "r", "a", "c", "t">>

W_Introduction ==
    <<"I", "n", "t", "r", "o", "d", "u", "c", "t", "i", "o", "n">>

W_Related ==
    <<"R", "e", "l", "a", "t", "e", "d">>

W_Work ==
    <<"W", "o", "r", "k">>

W_Preliminaries ==
    <<"P", "r", "e", "l", "i", "m", "i", "n", "a", "r", "i", "e", "s">>

W_Construction ==
    <<"C", "o", "n", "s", "t", "r", "u", "c", "t", "i", "o", "n">>

W_Security ==
    <<"S", "e", "c", "u", "r", "i", "t", "y">>

W_Analysis ==
    <<"A", "n", "a", "l", "y", "s", "i", "s">>

W_Implementation ==
    <<"I", "m", "p", "l", "e", "m", "e", "n", "t", "a", "t", "i", "o", "n">>

W_Performance ==
    <<"P", "e", "r", "f", "o", "r", "m", "a", "n", "c", "e">>

W_Evaluation ==
    <<"E", "v", "a", "l", "u", "a", "t", "i", "o", "n">>

W_Conclusion ==
    <<"C", "o", "n", "c", "l", "u", "s", "i", "o", "n">>

W_Conclusions ==
    <<"C", "o", "n", "c", "l", "u", "s", "i", "o", "n", "s">>

W_References ==
    <<"R", "e", "f", "e", "r", "e", "n", "c", "e", "s">>

W_Bibliography ==
    <<"B", "i", "b", "l", "i", "o", "g", "r", "a", "p", "h", "y">>

W_Acknowledgment ==
    <<"A", "c", "k", "n", "o", "w", "l", "e", "d", "g", "m", "e", "n", "t">>

W_Appendix ==
    <<"A", "p", "p", "e", "n", "d", "i", "x">>

\* ^\d+\.?\s+ : the numeric prefix of a numbered title
NumPrefix == <<Plus(Digits), Opt({"."}), Plus(Whitespace)>>

\* ^\d+\.?\s+<word>\s*$
Numbered(w) == NumPrefix \o <<Lit(w), Star(Whitespace), End>>

\* ^\d+\.?\s+<word>\s+<word>\s*$
Numbered2(w1, w2) ==
    NumPrefix \o <<Lit(w1), Plus(Whitespace), Lit(w2), Star(Whitespace), End>>

\* ^<word>\s*$
Plain(w) == <<Lit(w), Star(Whitespace), End>>

SECTION_PATTERNS ==
    << Plain(W_Abstract),
       Numbered(W_Introduction),
       Numbered2(W_Related, W_Work),
       Numbered(W_Preliminaries),
       Numbered(W_Construction),
       Numbered(W_Security),
       Numbered2(W_Security, W_Analysis),
       Numbered(W_Implementation),
       Numbered(W_Performance),
       Numbered(W_Evaluation),
       Numbered(W_Conclusion),
       Numbered(W_Conclusions),
       Plain(W_References),
       Plain(W_Bibliography),
       <<Lit(W_Acknowledgment), Opt({"s", "S"}), Star(Whitespace), End>>,
       <<Lit(W_Appendix), Star(Whitespace), Opt(Upper \cup Lower),
         Star(Whitespace), End>> >>

\* ^\d+\.?\s+[A-Z] , matched without re.IGNORECASE
NUMBERED_CAPITAL == NumPrefix \o <<One(Upper)>>

\* the length under which an upper-case or numbered line is a heading
HEADING_MAX_LEN == 50

\* str.isupper(): at least one cased character and no lower-case one
IsUpperStr(s) ==
    /\ \E k \in 1..Len(s) : s[k] \in Upper
    /\ \A k \in 1..Len(s) : s[k] \notin Lower

\* is_section_heading with the length test off by one (<= for <)
is_section_heading_le(line) ==
    LET l == Strip(line)
    IN  \/ \E k \in 1..Len(SECTION_PATTERNS) :
               ReMatch(SECTION_PATTERNS[k], 1, l, 1, TRUE)
        \/ /\ Len(l) <= HEADING_MAX_LEN
           /\ \/ IsUpperStr(l)
              \/ ReMatch(NUMBERED_CAPITAL, 1, l, 1, FALSE)

is_section_heading(line) ==
    LET l == Strip(line)
    IN  \/ \E k \in 1..Len(SECTION_PATTERNS) :
               ReMatch(SECTION_PATTERNS[k], 1, l, 1, TRUE)
        \/ /\ Len(l) < HEADING_MAX_LEN
           /\ \/ IsUpperStr(l)
              \/ ReMatch(NUMBERED_CAPITAL, 1, l, 1, FALSE)

(***************************************************************************)
(* extract_pdf.detect_sections                                             *)
(***************************************************************************)
W_Document ==
    <<"D", "o", "c", "u", "m", "e", "n", "t">>

Section(title, content) == [title |-> title, content |-> content]

\* the loop over the lines from line k on.  cur is current_section: <<>> for
\* None, <<title>> once a heading was seen; buf is current_content, a list of
\* lines.  `if current_section` is false for None and for the empty string.
RECURSIVE DetectLoop(_, _, _, _, _)
DetectLoop(lines, k, sections, cur, buf) ==
    LET truthy == cur # <<>> /\ cur[1] # <<>>
        saved  == IF truthy
                  THEN Append(sections, Section(cur[1], Strip(Join(buf, <<NL>>))))
                  ELSE sections
    IN  IF k > Len(lines)
        THEN IF truthy THEN saved
             ELSE IF buf # <<>>
             THEN Append(sections, Section(W_Document, Strip(Join(buf, <<NL>>))))
             ELSE sections
        ELSE IF is_section_heading(lines[k])
        THEN DetectLoop(lines, k + 1, saved, <<Strip(lines[k])>>, <<>>)
        ELSE DetectLoop(lines, k + 1, sections, cur, Append(buf, lines[k]))

\* detect_sections saving a section only when it has content lines
\* (`if current_section and current_content`)
RECURSIVE DetectLoopSkipEmpty(_, _, _, _, _)
DetectLoopSkipEmpty(lines, k, sections, cur, buf) ==
    LET truthy == cur # <<>> /\ cur[1] # <<>> /\ buf # <<>>
        saved  == IF truthy
                  THEN Append(sections, Section(cur[1], Strip(Join(buf, <<NL>>))))
                  ELSE sections
    IN  IF k > Len(lines)
        THEN IF cur # <<>> THEN saved
             ELSE IF buf # <<>>
             THEN Append(sections, Section(W_Document, Strip(Join(buf, <<NL>>))))
             ELSE sections
        ELSE IF is_section_heading(lines[k])
        THEN DetectLoopSkipEmpty(lines, k + 1, saved, <<Strip(lines[k])>>, <<>>)
        ELSE DetectLoopSkipEmpty(lines, k + 1, sections, cur,
                                 Append(buf, lines[k]))

detect_sections_skip_empty(text) ==
    DetectLoopSkipEmpty(SplitLines(text), 1, <<>>, <<>>, <<>>)

\* detect_sections resetting the buffer only when a section was saved
\* (`current_content = []` inside `if current_section:`)
RECURSIVE DetectLoopKeepPreamble(_, _, _, _, _)
DetectLoopKeepPreamble(lines, k, sections, cur, buf) ==
    LET truthy == cur # <<>> /\ cur[1] # <<>>
        saved  == IF truthy
                  THEN Append(sections, Section(cur[1], Strip(Join(buf, <<NL>>))))
                  ELSE sections
    IN  IF k > Len(lines)
        THEN IF truthy THEN saved
             ELSE IF buf # <<>>
             THEN Append(sections, Section(W_Document, Strip(Join(buf, <<NL>>))))
             ELSE sections
        ELSE IF is_section_heading(lines[k])
        THEN DetectLoopKeepPreamble(lines, k + 1, saved, <<Strip(lines[k])>>,
                                    IF truthy THEN <<>> ELSE buf)
        ELSE DetectLoopKeepPreamble(lines, k + 1, sections, cur,
                                    Append(buf, lines[k]))

detect_sections_keep_preamble(text) ==
    DetectLoopKeepPreamble(SplitLines(text), 1, <<>>, <<>>, <<>>)

detect_sections(text) == DetectLoop(SplitLines(text), 1, <<>>, <<>>, <<>>)

(***************************************************************************)
(* Specification: detect_sections applied to a text.                       *)
(***************************************************************************)
DetectAlphabet == {"A", "a", " ", NL}

DetectMaxLen == 6

InitDetect ==
    /\ pc = "ready"
    /\ input \in Strings(DetectAlphabet, DetectMaxLen)
    /\ out = <<>>
    /\ idx = 0
    /\ disk = <<>>

DetectSections ==
    /\ pc = "ready"
    /\ out' = detect_sections(input)
    /\ pc' = "detected"
    /\ UNCHANGED <<input, idx, disk>>

NextDetect == DetectSections

SpecDetect == InitDetect /\ [][NextDetect]_vars

\* the lines of the text and the positions of those classified as headings
TextLines == SplitLines(input)

HeadingLines == {k \in 1..Len(TextLines) : is_section_heading(TextLines[k])}

\* the j-th heading line, and the line after the last (for j past the end)
NthHeading(j) ==
    IF j > Cardinality(HeadingLines) THEN Len(TextLines) + 1
    ELSE CHOOSE h \in HeadingLines :
             Cardinality({g \in HeadingLines : g <= h}) = j

\* C3: a text with k >= 1 heading lines yields exactly k Sections, in document
\* order; the i-th has the trimmed i-th heading line as its title and, as its
\* content, the lines strictly between that heading and the next one (or the
\* end), joined by newline and trimmed.  Headings are never merged.
C3_OneSectionPerHeading ==
    (pc = "detected" /\ HeadingLines # {}) =>
        /\ Len(out) = Cardinality(HeadingLines)
        /\ \A j \in 1..Len(out) :
               /\ out[j].title = Strip(TextLines[NthHeading(j)])
               /\ out[j].content =
                      Strip(Join(SubSeq(TextLines, NthHeading(j) + 1,
                                        NthHeading(j + 1) - 1), <<NL>>))

\* two headings with the same title, the first with no line after it
C3_Witness ==
    /\ pc = "detected"
    /\ Cardinality(HeadingLines) >= 2
    /\ out[1].title = out[2].title
    /\ out[1].content = <<>>
    /\ out[2].content # <<>>

\* C4: a text without heading lines yields one Section titled "Document" with
\* all the content, trimmed; the empty text yields the empty sequence.
C4_NoHeadings ==
    (pc = "detected" /\ HeadingLines = {}) =>
        IF input = <<>>
        THEN out = <<>>
        ELSE out = <<Section(W_Document, Strip(input))>>

(***************************************************************************)
(* Specification: is_section_heading applied to a line.                    *)
(***************************************************************************)
HeadAlphabet == {"A", "a", "1", ".", " "}

HeadMaxLen == 4

Repeat(c, n) == [k \in 1..n |-> c]

L_Construction3 ==
    <<"3", ".", " ", "C", "o", "n", "s", "t", "r", "u", "c", "t", "i",
      "o", "n">>

L_REFERENCES ==
    <<"R", "E", "F", "E", "R", "E", "N", "C", "E", "S">>

L_LongSentence ==
    <<"T", "h", "i", "s", " ", "i", "s", " ", "a", " ", "l", "o", "n",
      "g", " ", "s", "e", "n", "t", "e", "n", "c", "e", " ", "d", "e",
      "s", "c", "r", "i", "b", "i", "n", "g", " ", "t", "h", "e", " ",
      "c", "o", "n", "s", "t", "r", "u", "c", "t", "i", "o", "n", " ",
      "i", "n", " ", "d", "e", "t", "a", "i", "l", ".">>

\* known titles with and without a numeric prefix, in either case, and lines
\* on both sides of the length limit
HeadFixtures ==
    {W_Abstract, L_Construction3, L_REFERENCES, L_LongSentence,
     LowerStr(W_Abstract), LowerStr(L_Construction3),
     W_Acknowledgment, W_Acknowledgment \o <<"s">>,
     W_Appendix, W_Appendix \o <<" ", "B">>, W_Appendix \o <<"b">>,
     W_Appendix \o <<" ", "B", "C">>, W_Introduction,
     <<"2", " ">> \o W_Related \o <<" ", " ">> \o W_Work,
     <<"2", ".", " ">> \o W_Related \o W_Work,
     <<"1", "2">> \o Repeat(" ", HEADING_MAX_LEN) \o LowerStr(W_Security),
     <<"1", ".">> \o W_Introduction}
    \cup {Repeat("A", n) : n \in (HEADING_MAX_LEN - 1)..(HEADING_MAX_LEN + 1)}
    \cup {<<"7", " ", "B">> \o Repeat("a", n) :
              n \in (HEADING_MAX_LEN - 4)..(HEADING_MAX_LEN - 2)}

InitHeading ==
    /\ pc = "ready"
    /\ input \in Strings(HeadAlphabet, HeadMaxLen) \cup HeadFixtures
    /\ out = FALSE
    /\ idx = 0
    /\ disk = <<>>

Classify ==
    /\ pc = "ready"
    /\ out' = is_section_heading(input)
    /\ pc' = "classified"
    /\ UNCHANGED <<input, idx, disk>>

NextHeading == Classify

SpecHeading == InitHeading /\ [][NextHeading]_vars

\* a string with its whitespace runs replaced by one space, in lower case
RECURSIVE Canonical(_)
Canonical(s) ==
    IF s = <<>> THEN <<>>
    ELSE IF IsSpace(s[1])
    THEN <<" ">> \o Canonical(SubSeq(s, RunEnd(s, 1, Whitespace) + 1, Len(s)))
    ELSE <<ToLower(s[1])>> \o Canonical(Tail(s))

\* what follows a numeric prefix of t: an integer, a period (optional when
\* dotOptional), whitespace
AfterNumber(t, dotOptional) ==
    {SubSeq(t, r, Len(t)) :
        r \in {r \in 3..Len(t) :
                 /\ ~IsSpace(t[r]) /\ IsSpace(t[r - 1])
                 /\ \E d \in 1..(r - 2) :
                        /\ \A k \in 1..d : t[k] \in Digits
                        /\ \/ /\ dotOptional
                              /\ \A k \in (d + 1)..(r - 1) : IsSpace(t[k])
                           \/ /\ t[d + 1] = "."
                              /\ d + 2 <= r - 1
                              /\ \A k \in (d + 2)..(r - 1) : IsSpace(t[k])}}

NumberedTitles ==
    {LowerStr(W_Introduction), LowerStr(W_Related \o <<" ">> \o W_Work),
     LowerStr(W_Preliminaries), LowerStr(W_Construction),
     LowerStr(W_Security), LowerStr(W_Security \o <<" ">> \o W_Analysis),
     LowerStr(W_Implementation), LowerStr(W_Performance),
     LowerStr(W_Evaluation), LowerStr(W_Conclusion),
     LowerStr(W_Conclusions)}

PlainTitles ==
    {LowerStr(W_Abstract), LowerStr(W_References), LowerStr(W_Bibliography),
     LowerStr(W_Acknowledgment), LowerStr(W_Acknowledgment \o <<"s">>),
     LowerStr(W_Appendix)}
    \cup {LowerStr(W_Appendix) \o sep \o <<c>> :
              sep \in {<<>>, <<" ">>}, c \in Lower}

\* the known section titles: a plain one, or a numbered one after an integer,
\* an optional period and whitespace
KnownTitle(t) ==
    \/ Canonical(t) \in PlainTitles
    \/ \E rest \in AfterNumber(t, TRUE) : Canonical(rest) \in NumberedTitles

\* the classification rule; dotOptional tells whether the period of the
\* numbered rule "<integer>. <capital letter>" may be left out
HeadingRule(line, dotOptional) ==
    LET t == Strip(line)
    IN  \/ KnownTitle(t)
        \/ /\ Len(t) < 50
           /\ \/ /\ \E k \in 1..Len(t) : t[k] \in Upper
                 /\ \A k \in 1..Len(t) : t[k] \notin Lower
              \/ \E rest \in AfterNumber(t, dotOptional) : rest[1] \in Upper

\* C5 (as amended): a line is a heading iff, trimmed, it is a known section
\* title (in any case) or is shorter than 50 characters and is upper-case or
\* starts with an integer, an optional period, whitespace and a capital
\* letter; the four lines of the specification are classified as it says.
C5_HeadingRule ==
    pc = "classified" =>
        /\ out = HeadingRule(input, TRUE)
        /\ input \in {W_Abstract, L_Construction3, L_REFERENCES} => out
        /\ input = L_LongSentence => ~out

\* a numbered line whose integer is not followed by a period is a heading
C5_Witness ==
    /\ pc = "classified"
    /\ out
    /\ ~HeadingRule(input, FALSE)

\* C5 (as stated): the numbered rule demands the period after the integer
C5_HeadingRulePeriod ==
    pc = "classified" => out = HeadingRule(input, FALSE)

(***************************************************************************)
(* The disk: a function from paths to files and directories.               *)
(***************************************************************************)
File(text) == [kind |-> "file", text |-> text]

Dir == [kind |-> "dir"]

NoFiles == <<>>

\* Path.write_text / mkdir: the disk with path p holding entry e
WithEntry(d, p, e) == (p :> e) @@ d

\* a path: directory (a name), stem (a str), suffix (a name)
Path(dir, stem, suffix) == <<dir, stem, suffix>>

W_Dilithium_en ==
    <<"D", "i", "l", "i", "t", "h", "i", "u", "m", "_", "e", "n">>

OUT_DIR == "docs/out"

MD_FILE == Path(OUT_DIR, W_Dilithium_en, ".md")

(***************************************************************************)
(* extract_pdf.generate_markdown                                           *)
(***************************************************************************)
\* md_lines: per section the heading line "# title\n", the content and ""
RECURSIVE MdLines(_)
MdLines(sections) ==
    IF sections = <<>> THEN <<>>
    ELSE << <<"#", " ">> \o sections[1].title \o <<NL>>,
            sections[1].content,
            <<>> >> \o MdLines(Tail(sections))

generate_markdown(sections) == Join(MdLines(sections), <<NL>>)

(***************************************************************************)
(* segment_sections.read_from_markdown                                     *)
(***************************************************************************)
W_Preface ==
    <<"P", "r", "e", "f", "a", "c", "e">>

\* whether r'\n# (.+)\n' matches at position i: a newline, "# ", at least one
\* character other than a newline, and the newline that ends that line
HeaderAt(s, i) ==
    /\ i + 3 <= Len(s)
    /\ s[i] = NL /\ s[i + 1] = "#" /\ s[i + 2] = " "
    /\ IndexFrom(s, NL, i + 3) > i + 3

\* re.split(r'\n# (.+)\n', content) from position p on: the text before each
\* match, the group of the match, and the text after the last match.  The
\* matches do not overlap: the newline that ends one heading line cannot
\* start the next match.
RECURSIVE SplitHeaders(_, _)
SplitHeaders(s, p) ==
    LET hits == {i \in p..Len(s) : HeaderAt(s, i)}
        i    == CHOOSE h \in hits : \A g \in hits : h <= g
        q    == IndexFrom(s, NL, i + 3)
    IN  IF hits = {}
        THEN <<SubSeq(s, p, Len(s))>>
        ELSE <<SubSeq(s, p, i - 1), SubSeq(s, i + 3, q - 1)>>
                 \o SplitHeaders(s, q + 1)

\* the loop over the (title, content) pairs of parts, from index i (1-based)
RECURSIVE PairSections(_, _)
PairSections(parts, i) ==
    IF i > Len(parts) THEN <<>>
    ELSE IF i + 1 <= Len(parts)
    THEN <<Section(Strip(parts[i]), Strip(parts[i + 1]))>>
             \o PairSections(parts, i + 2)
    ELSE <<Section(Strip(parts[i]), <<>>)>> \o PairSections(parts, i + 2)

read_from_markdown(content) ==
    LET parts == SplitHeaders(content, 1)
    IN  (IF Strip(parts[1]) # <<>>
         THEN <<Section(W_Preface, Strip(parts[1]))>>
         ELSE <<>>) \o PairSections(parts, 2)

(***************************************************************************)
(* Specification: the extractor writes the Markdown of a sequence of       *)
(* Sections and the segmenter reads it back.                               *)
(***************************************************************************)
RtTitles == {<<"A">>, <<"1", ".", " ", "B">>}

RtContents == {<<>>, <<"x">>, <<"x", NL, "y">>}

RtMaxSections == 3

RtSections ==
    UNION {[1..n -> {Section(t, c) : t \in RtTitles, c \in RtContents}] :
              n \in 0..RtMaxSections}

InitRoundTrip ==
    /\ pc = "ready"
    /\ input \in RtSections
    /\ out = <<>>
    /\ idx = 0
    /\ disk = NoFiles

\* extract_pdf: md_output.write_text(generate_markdown(sections))
WriteMarkdown ==
    /\ pc = "ready"
    /\ disk' = WithEntry(disk, MD_FILE, File(generate_markdown(input)))
    /\ pc' = "rendered"
    /\ UNCHANGED <<input, out, idx>>

\* segment_sections: read_from_markdown(input_path)
ReadMarkdown ==
    /\ pc = "rendered"
    /\ out' = read_from_markdown(disk[MD_FILE].text)
    /\ pc' = "parsed"
    /\ UNCHANGED <<input, idx, disk>>

NextRoundTrip == WriteMarkdown \/ ReadMarkdown

SpecRoundTrip == InitRoundTrip /\ [][NextRoundTrip]_vars

\* C1: parsing the Markdown generated from a sequence S of Sections yields S:
\* same length, same order, equal titles and contents.
C1_RoundTrip ==
    pc = "parsed" => out = input

(***************************************************************************)
(* Specification: read_from_markdown applied to a Markdown file.           *)
(***************************************************************************)
MdAlphabet == {"#", " ", "a", NL}

MdMaxLen == 7

InitParse ==
    /\ pc = "rendered"
    /\ input = <<>>
    /\ out = <<>>
    /\ idx = 0
    /\ \E text \in Strings(MdAlphabet, MdMaxLen) :
           disk = WithEntry(NoFiles, MD_FILE, File(text))

NextParse == ReadMarkdown

SpecParse == InitParse /\ [][NextParse]_vars

\* the lines of the Markdown file and those that are top-level headings
MdFileLines == SplitLines(disk[MD_FILE].text)

IsMdHeading(line) ==
    Len(line) >= 3 /\ line[1] = "#" /\ line[2] = " "

MdHeadings == {k \in 1..Len(MdFileLines) : IsMdHeading(MdFileLines[k])}

NthMdHeading(j) ==
    IF j > Cardinality(MdHeadings) THEN Len(MdFileLines) + 1
    ELSE CHOOSE h \in MdHeadings :
             Cardinality({g \in MdHeadings : g <= h}) = j

\* the text before the first heading line
MdPreface ==
    Strip(Join(SubSeq(MdFileLines, 1, NthMdHeading(1) - 1), <<NL>>))

\* one Section per heading line, after a "Preface" for non-blank leading text
MdExpected ==
    (IF MdPreface # <<>> THEN <<Section(W_Preface, MdPreface)>> ELSE <<>>)
    \o [j \in 1..Cardinality(MdHeadings) |->
          Section(Strip(SubSeq(MdFileLines[NthMdHeading(j)], 3,
                               Len(MdFileLines[NthMdHeading(j)]))),
                  Strip(Join(SubSeq(MdFileLines, NthMdHeading(j) + 1,
                                    NthMdHeading(j + 1) - 1), <<NL>>)))]

\* C6: read_from_markdown returns one Section per heading line "# <title>",
\* in order, with empty content for a heading directly followed by another
\* heading or by the end of input, after a first Section "Preface" holding
\* any non-blank text before the first heading.
C6_SectionPerHeadingLine ==
    pc = "parsed" => out = MdExpected

(***************************************************************************)
(* segment_sections.sanitize_filename                                      *)
(***************************************************************************)
\* re.sub(r'[^\w\s-]', '', title)
DropUnsafe(s) == SelectSeq(s, LAMBDA c : IsWord(c) \/ IsSpace(c) \/ c = "-")

\* re.sub(r'\s+', '_', title)
RECURSIVE SpacesToUnderscore(_, _)
SpacesToUnderscore(s, p) ==
    IF p > Len(s) THEN <<>>
    ELSE IF IsSpace(s[p])
    THEN <<"_">> \o SpacesToUnderscore(s, RunEnd(s, p, Whitespace) + 1)
    ELSE <<s[p]>> \o SpacesToUnderscore(s, p + 1)

\* title.strip('_')
RECURSIVE StripUnderscores(_)
StripUnderscores(s) ==
    IF s # <<>> /\ Head(s) = "_" THEN StripUnderscores(Tail(s))
    ELSE IF s # <<>> /\ s[Len(s)] = "_"
    THEN StripUnderscores(SubSeq(s, 1, Len(s) - 1))
    ELSE s

\* sanitize_filename stripping the underscores before the whitespace is
\* replaced instead of after
sanitize_filename_strip_first(title) ==
    SpacesToUnderscore(StripUnderscores(DropUnsafe(title)), 1)

sanitize_filename(title) ==
    StripUnderscores(SpacesToUnderscore(DropUnsafe(title), 1))

(***************************************************************************)
(* Specification: sanitize_filename applied to a title and then to its     *)
(* own result.                                                             *)
(***************************************************************************)
SanAlphabet == {"a", "1", "_", "-", " ", "!"}

SanMaxLen == 5

L_RelatedWork ==
    <<"1", ".", " ", "R", "e", "l", "a", "t", "e", "d", " ", "W", "o",
      "r", "k", "!">>

L_Related_Work ==
    <<"1", "_", "R", "e", "l", "a", "t", "e", "d", "_", "W", "o", "r",
      "k">>

InitSanitize ==
    /\ pc = "ready"
    /\ input \in Strings(SanAlphabet, SanMaxLen) \cup {L_RelatedWork}
    /\ out = <<>>
    /\ idx = 0
    /\ disk = NoFiles

\* segment_sections: safe_title = sanitize_filename(title)
Sanitize ==
    /\ pc = "ready"
    /\ out' = <<sanitize_filename(input)>>
    /\ pc' = "sanitized"
    /\ UNCHANGED <<input, idx, disk>>

\* the next run, on a title that is already a sanitized name
SanitizeAgain ==
    /\ pc = "sanitized"
    /\ out' = Append(out, sanitize_filename(out[1]))
    /\ pc' = "resanitized"
    /\ UNCHANGED <<input, idx, disk>>

NextSanitize == Sanitize \/ SanitizeAgain

SpecSanitize == InitSanitize /\ [][NextSanitize]_vars

\* C9: sanitize_filename is idempotent; its result holds only alphanumeric
\* characters, underscores and hyphens, no whitespace, and neither starts
\* nor ends with an underscore; "1. Related Work!" maps to "1_Related_Work".
C9_SanitizeIdempotent ==
    pc = "resanitized" =>
        /\ out[2] = out[1]
        /\ \A k \in 1..Len(out[1]) :
               /\ out[1][k] \in Digits \cup Upper \cup Lower \cup {"_", "-"}
               /\ out[1][k] \notin Whitespace
        /\ out[1] # <<>> => out[1][1] # "_" /\ out[1][Len(out[1])] # "_"
        /\ input = L_RelatedWork => out[1] = L_Related_Work

\* a title with leading whitespace, punctuation and an inner space
C9_Witness ==
    /\ pc = "resanitized"
    /\ Len(input) >= 4
    /\ input[1] = " "
    /\ \E k \in 1..Len(input) : input[k] = "!"
    /\ \E k \in 1..Len(out[2]) : out[2][k] = "_"

(***************************************************************************)
(* export_docx.apply_glossary                                              *)
(* A glossary is the sequence of the (term, rendering) items of the dict,  *)
(* in insertion order.                                                     *)
(***************************************************************************)
\* \b at position p: exactly one of s[p - 1] and s[p] is a word character
Boundary(s, p) ==
    (p - 1 >= 1 /\ IsWord(s[p - 1])) # (p <= Len(s) /\ IsWord(s[p]))

\* whether r'\b' + re.escape(term) + r'\b' matches at position p, with
\* re.IGNORECASE
TermAt(s, p, term) ==
    /\ p + Len(term) - 1 <= Len(s)
    /\ \A j \in 1..Len(term) : ToLower(s[p + j - 1]) = ToLower(term[j])
    /\ Boundary(s, p)
    /\ Boundary(s, p + Len(term))

\* re.sub(pattern, zh_term, result, flags=re.IGNORECASE) from position p on
RECURSIVE SubTerm(_, _, _, _)
SubTerm(s, p, term, zh) ==
    IF p > Len(s) THEN <<>>
    ELSE IF TermAt(s, p, term)
    THEN zh \o SubTerm(s, p + Len(term), term, zh)
    ELSE <<s[p]>> \o SubTerm(s, p + 1, term, zh)

\* sorted(glossary.items(), key=lambda x: len(x[0]), reverse=True): a stable
\* sort, so items of equal length keep their order
RECURSIVE SortedTerms(_)
SortedTerms(items) ==
    IF items = <<>> THEN <<>>
    ELSE
        LET longest == {k \in 1..Len(items) :
                           \A j \in 1..Len(items) :
                               Len(items[j][1]) <= Len(items[k][1])}
            first   == CHOOSE k \in longest : \A j \in longest : k <= j
        IN  <<items[first]>>
                \o SortedTerms([j \in 1..(Len(items) - 1) |->
                                   IF j < first THEN items[j] ELSE items[j + 1]])

\* the loop over the sorted terms, each substituted in the result of the
\* substitutions before it
RECURSIVE SubstituteAll(_, _)
SubstituteAll(result, terms) ==
    IF terms = <<>> THEN result
    ELSE SubstituteAll(SubTerm(result, 1, terms[1][1], terms[1][2]),
                       Tail(terms))

apply_glossary(text, glossary) == SubstituteAll(text, SortedTerms(glossary))

(***************************************************************************)
(* Specification: apply_glossary applied to a text under a glossary that   *)
(* holds a two-word term and a shorter term that occurs inside it.         *)
(***************************************************************************)
GlAlphabet == {"a", "b", "B", " "}

GlMaxLen == 4

GlLongTerm == <<"a", " ", "b">>

GlShortTerms == {<<"a">>, <<"b">>}

GlRenderings == {<<"x">>, <<"y">>, <<"b">>, <<"x", " ", "b">>}

Glossaries ==
    UNION {{ << <<GlLongTerm, zl>>, <<short, zs>> >>,
             << <<short, zs>>, <<GlLongTerm, zl>> >> } :
              short \in GlShortTerms, zl \in GlRenderings, zs \in GlRenderings}

InitGlossary ==
    /\ pc = "ready"
    /\ input \in [text : Strings(GlAlphabet, GlMaxLen), glossary : Glossaries]
    /\ out = <<>>
    /\ idx = 0
    /\ disk = NoFiles

\* translate_placeholder: apply_glossary(text, glossary)
ApplyGlossary ==
    /\ pc = "ready"
    /\ out' = apply_glossary(input.text, input.glossary)
    /\ pc' = "substituted"
    /\ UNCHANGED <<input, idx, disk>>

NextGlossary == ApplyGlossary

SpecGlossary == InitGlossary /\ [][NextGlossary]_vars

\* the text with every term replaced as a unit, a longer term taking
\* precedence over a shorter one at the same place, and no rendering
\* substituted again
RECURSIVE ReplacedAsUnits(_, _, _)
ReplacedAsUnits(s, p, terms) ==
    IF p > Len(s) THEN <<>>
    ELSE
        LET hits  == {k \in 1..Len(terms) : TermAt(s, p, terms[k][1])}
            first == CHOOSE k \in hits : \A j \in hits : k <= j
        IN  IF hits = {}
            THEN <<s[p]>> \o ReplacedAsUnits(s, p + 1, terms)
            ELSE terms[first][2]
                     \o ReplacedAsUnits(s, p + Len(terms[first][1]), terms)

\* C8: with a multi-word term and a shorter term inside it in the glossary,
\* each occurrence of the longer phrase is replaced as a unit by its
\* rendering, and the shorter term is replaced neither inside the phrase nor
\* inside its rendering.
C8_LongerTermAsUnit ==
    pc = "substituted" =>
        out = ReplacedAsUnits(input.text, 1, SortedTerms(input.glossary))

(***************************************************************************)
(* segment_sections.segment_sections                                       *)
(***************************************************************************)
SECTIONS_DIR == "docs/out/sections"

\* the path of a directory
DirPath(dir) == Path(dir, <<>>, "")

\* a JSON file, by the value json.load returns for it
JsonFile(data) == [kind |-> "json", data |-> data]

\* read_from_json: data.get('sections', [])
read_from_json(file) ==
    IF "sections" \in DOMAIN file.data THEN file.data.sections ELSE <<>>

DigitSeq == <<"0", "1", "2", "3", "4", "5", "6", "7", "8", "9">>

\* str(n) for n >= 0
RECURSIVE Decimal(_)
Decimal(n) ==
    IF n < 10 THEN <<DigitSeq[n + 1]>>
    ELSE Decimal(n \div 10) \o <<DigitSeq[(n % 10) + 1]>>

\* f"{idx:02d}"
TwoDigits(n) == IF n < 10 THEN <<"0">> \o Decimal(n) ELSE Decimal(n)

\* output_dir / f"{idx:02d}_{safe_title}.md"
SectionPath(dir, i, title) ==
    Path(dir, TwoDigits(i) \o <<"_">> \o sanitize_filename(title), ".md")

\* f"# {title}\n\n{content}\n"
SectionFileText(title, content) ==
    <<"#", " ">> \o title \o <<NL, NL>> \o content \o <<NL>>

\* the input file of the segmenter, as the extractor wrote it: the JSON
\* artifact under .json, the Markdown text under any other suffix
SegSuffixes == {".json", ".md", ".txt", ""}

SegMaxSections == 2

SegSections ==
    UNION {[1..n -> {Section(t, c) : t \in RtTitles, c \in RtContents}] :
              n \in 0..SegMaxSections}

SegInputFile(suffix, sections) ==
    IF suffix = ".json"
    THEN JsonFile([source_file |-> "Dilithium-uncompressed.pdf",
                   sections |-> sections])
    ELSE File(generate_markdown(sections))

\* main() has checked that the input file exists; the output directory may
\* be left from an earlier run
InitSegment ==
    /\ pc = "start"
    /\ out = <<>>
    /\ idx = 0
    /\ \E suffix \in SegSuffixes, sections \in SegSections, made \in BOOLEAN :
           /\ input = [input_file |-> Path(OUT_DIR, W_Dilithium_en, suffix),
                       output_dir |-> SECTIONS_DIR]
           /\ disk = WithEntry(
                         IF made THEN WithEntry(NoFiles, DirPath(SECTIONS_DIR), Dir)
                         ELSE NoFiles,
                         input.input_file, SegInputFile(suffix, sections))

\* input_path.suffix
Suffix(path) == path[3]

\* output_dir.mkdir(parents=True, exist_ok=True)
SegMkdir ==
    /\ pc = "start"
    /\ disk' = WithEntry(disk, DirPath(input.output_dir), Dir)
    /\ pc' = "made"
    /\ UNCHANGED <<input, out, idx>>

\* the .json and .md branches: the sections are read
SegRead ==
    /\ pc = "made"
    /\ \/ /\ Suffix(input.input_file) = ".json"
          /\ out' = read_from_json(disk[input.input_file])
       \/ /\ Suffix(input.input_file) = ".md"
          /\ out' = read_from_markdown(disk[input.input_file].text)
    /\ pc' = "write"
    /\ UNCHANGED <<input, idx, disk>>

\* the else branch: raise ValueError("Unsupported file format ...")
SegReject ==
    /\ pc = "made"
    /\ Suffix(input.input_file) \notin {".json", ".md"}
    /\ pc' = "error"
    /\ UNCHANGED <<input, out, idx, disk>>

\* one pass of the loop over enumerate(sections, start=1)
SegWrite ==
    /\ pc = "write"
    /\ idx < Len(out)
    /\ idx' = idx + 1
    /\ disk' = WithEntry(disk,
                         SectionPath(input.output_dir, idx', out[idx'].title),
                         File(SectionFileText(out[idx'].title,
                                              out[idx'].content)))
    /\ UNCHANGED <<pc, input, out>>

\* the loop is over
SegDone ==
    /\ pc = "write"
    /\ idx = Len(out)
    /\ pc' = "done"
    /\ UNCHANGED <<input, out, idx, disk>>

NextSegment == SegMkdir \/ SegRead \/ SegReject \/ SegWrite \/ SegDone

SpecSegment == InitSegment /\ [][NextSegment]_vars

\* C10: a run of the segmenter on an input file whose extension is neither
\* .json nor .md creates and modifies nothing on disk, neither a section
\* file nor the output directory, up to and including the report of the
\* error.
C10_UnsupportedWritesNothing ==
    [][Suffix(input.input_file) \notin {".json", ".md"} => disk' = disk]_vars

(***************************************************************************)
(* export_docx: the composed document is the sequence of its paragraphs,   *)
(* each with its style and its text.                                       *)
(***************************************************************************)
Para(style, text) == [style |-> style, text |-> text]

\* the ASCII part of the texts create_docx writes
DOC_TITLE ==
    <<"D", "i", "l", "i", "t", "h", "i", "u", "m", " ", "D", "i", "g",
      "i", "t", "a", "l", " ", "S", "i", "g", "n", "a", "t", "u", "r",
      "e", " ", "S", "c", "h", "e", "m", "e">>

DOC_SUBTITLE ==
    <<"C", "h", "i", "n", "e", "s", "e", " ", "T", "r", "a", "n", "s",
      "l", "a", "t", "i", "o", "n">>

EN_REF_LABEL ==
    <<"E", "n", "g", "l", "i", "s", "h", " ", "R", "e", "f", "e", "r",
      "e", "n", "c", "e", ":">>

PENDING_NOTE ==
    <<"T", "r", "a", "n", "s", "l", "a", "t", "i", "o", "n", " ", "p",
      "e", "n", "d", "i", "n", "g">>

W_Dilithium_zh ==
    <<"D", "i", "l", "i", "t", "h", "i", "u", "m", "_", "z", "h">>

TRANSLATION_DIR == "docs/translation/sections"

DOCX_FILE == Path(OUT_DIR, W_Dilithium_zh, ".docx")

\* the characters of file names, in code point order
CodePoints ==
    <<" ", "!", "#", "-", ".">> \o DigitSeq \o UpperSeq \o <<"_">> \o LowerSeq

CodePoint(c) == CHOOSE k \in 1..Len(CodePoints) : CodePoints[k] = c

\* a < b for two str
RECURSIVE StrLess(_, _)
StrLess(a, b) ==
    IF b = <<>> THEN FALSE
    ELSE IF a = <<>> THEN TRUE
    ELSE IF a[1] = b[1] THEN StrLess(Tail(a), Tail(b))
    ELSE CodePoint(a[1]) < CodePoint(b[1])

\* sorted(paths) for paths of one directory and one suffix
RECURSIVE SortedPaths(_)
SortedPaths(paths) ==
    IF paths = {} THEN <<>>
    ELSE
        LET least == CHOOSE q \in paths :
                         \A r \in paths \ {q} : StrLess(q[2], r[2])
        IN  <<least>> \o SortedPaths(paths \ {least})

\* get_section_files: sorted(sections_dir.glob("*.md"))
get_section_files(d, dir) ==
    SortedPaths({q \in DOMAIN d :
                    q[1] = dir /\ q[3] = ".md" /\ d[q].kind = "file"})

\* line.lstrip('#')
RECURSIVE LStripHashes(_)
LStripHashes(s) ==
    IF s # <<>> /\ Head(s) = "#" THEN LStripHashes(Tail(s)) ELSE s

\* line.startswith('#')
StartsWithHash(line) == line # <<>> /\ line[1] = "#"

\* the loop of create_docx over the lines of a section file, from line k on:
\* title is <<>> for None and <<t>> once the first '#' line was seen
RECURSIVE TitleAndContent(_, _, _, _)
TitleAndContent(lines, k, title, content_lines) ==
    IF k > Len(lines)
    THEN [title |-> title,
          en_content |-> Strip(Join(content_lines, <<NL>>))]
    ELSE IF StartsWithHash(lines[k]) /\ title = <<>>
    THEN TitleAndContent(lines, k + 1, <<Strip(LStripHashes(lines[k]))>>,
                         content_lines)
    ELSE TitleAndContent(lines, k + 1, title, Append(content_lines, lines[k]))

\* load_human_translation: <<>> for None, <<content>> for the text of the
\* .zh.md file, without its first line and trimmed when that line is a
\* heading
load_human_translation(d, section_file, translation_dir) ==
    LET zh_path == Path(translation_dir, section_file[2], ".zh.md")
        lines   == SplitLines(d[zh_path].text)
    IN  IF zh_path \in DOMAIN d
        THEN IF StartsWithHash(lines[1])
             THEN <<Strip(Join(Tail(lines), <<NL>>))>>
             ELSE <<d[zh_path].text>>
        ELSE <<>>

\* the paragraphs of a section with a human translation
HumanArm(title, zh_content, en_content) ==
    <<Para("Heading 1", title), Para("Normal", zh_content),
      Para("Normal", <<>>), Para("Normal", EN_REF_LABEL),
      Para("Normal", en_content), Para("Normal", <<>>)>>

\* the paragraphs of a section with the placeholder translation
PlaceholderArm(title, en_content, glossary) ==
    <<Para("Heading 1", title),
      Para("Normal", apply_glossary(en_content, glossary)),
      Para("Normal", PENDING_NOTE), Para("Normal", <<>>)>>

\* compose_section taking the human arm whenever the .zh.md file exists
\* (`if zh_content is not None`)
compose_section_if_exists(d, section_file, translation_dir, glossary) ==
    LET sec == TitleAndContent(SplitLines(d[section_file].text), 1, <<>>, <<>>)
        zh  == load_human_translation(d, section_file, translation_dir)
    IN  IF sec.title = <<>> \/ sec.title[1] = <<>> \/ sec.en_content = <<>>
        THEN <<>>
        ELSE IF zh # <<>>
        THEN HumanArm(sec.title[1], zh[1], sec.en_content)
        ELSE PlaceholderArm(sec.title[1], sec.en_content, glossary)

\* one pass of the loop of create_docx over the section files: the
\* paragraphs it adds to the document
compose_section(d, section_file, translation_dir, glossary) ==
    LET sec == TitleAndContent(SplitLines(d[section_file].text), 1, <<>>, <<>>)
        zh  == load_human_translation(d, section_file, translation_dir)
    IN  IF sec.title = <<>> \/ sec.title[1] = <<>> \/ sec.en_content = <<>>
        THEN <<>>
        ELSE IF zh # <<>> /\ zh[1] # <<>>
        THEN HumanArm(sec.title[1], zh[1], sec.en_content)
        ELSE PlaceholderArm(sec.title[1], sec.en_content, glossary)

(***************************************************************************)
(* Specification: create_docx over a directory of section files, each      *)
(* with or without a human translation.                                    *)
(***************************************************************************)
DocxMaxFiles == 2

\* section files as the segmenter writes them: with content, without (a
\* heading directly followed by the next one), with a '#' line in the content
DocxSectionTexts ==
    {SectionFileText(<<"A">>, <<"b", " ", "c">>),
     SectionFileText(<<"A">>, <<>>),
     SectionFileText(<<"B">>, <<"c">>),
     SectionFileText(<<"A">>, <<"c", NL, "#", " ", "d">>)}

\* translation files: empty, with and without a heading line, a heading
\* line alone or followed by blanks, blank
DocxZhTexts ==
    {<<>>,
     <<"#", " ", "A", NL, NL, "z", NL>>,
     <<"z">>,
     <<"#", " ", "A", NL>>,
     <<"#", " ", "A", NL, " ", NL>>,
     <<NL>>}

DocxGlossary ==
    << <<<<"c">>, <<"y">>>>, <<<<"b", " ", "c">>, <<"x">>>> >>

DocxStem(i) == TwoDigits(i) \o <<"_", "A">>

\* the disk with n section files and a translation for those in translated
DocxDisk(n, texts, translated, zh) ==
    [q \in {Path(SECTIONS_DIR, DocxStem(i), ".md") : i \in 1..n}
           \cup {Path(TRANSLATION_DIR, DocxStem(i), ".zh.md") : i \in translated}
       |-> IF q[3] = ".md"
           THEN File(texts[CHOOSE i \in 1..n : DocxStem(i) = q[2]])
           ELSE File(zh[CHOOSE i \in 1..n : DocxStem(i) = q[2]])]

InitDocx ==
    /\ pc = "start"
    /\ input = [sections_dir |-> SECTIONS_DIR,
                translation_dir |-> TRANSLATION_DIR,
                glossary |-> DocxGlossary]
    /\ out = <<>>
    /\ idx = 0
    /\ \E n \in 0..DocxMaxFiles :
           \E texts \in [1..n -> DocxSectionTexts],
              translated \in SUBSET (1..n),
              zh \in [1..n -> DocxZhTexts] :
               /\ \A i \in (1..n) \ translated : zh[i] = <<>>
               /\ disk = DocxDisk(n, texts, translated, zh)

\* Document(), the title, the subtitle and a blank line
DocxOpen ==
    /\ pc = "start"
    /\ out' = <<Para("Title", DOC_TITLE), Para("Normal", DOC_SUBTITLE),
                Para("Normal", <<>>)>>
    /\ pc' = "compose"
    /\ UNCHANGED <<input, idx, disk>>

\* one pass of the loop over section_files
DocxSection ==
    /\ pc = "compose"
    /\ idx < Len(get_section_files(disk, input.sections_dir))
    /\ idx' = idx + 1
    /\ out' = out \o compose_section(
                         disk,
                         get_section_files(disk, input.sections_dir)[idx'],
                         input.translation_dir, input.glossary)
    /\ UNCHANGED <<pc, input, disk>>

\* doc.save(output_path)
DocxSave ==
    /\ pc = "compose"
    /\ idx = Len(get_section_files(disk, input.sections_dir))
    /\ disk' = WithEntry(WithEntry(disk, DirPath(OUT_DIR), Dir),
                         DOCX_FILE, [kind |-> "docx", paragraphs |-> out])
    /\ pc' = "saved"
    /\ UNCHANGED <<input, out, idx>>

NextDocx == DocxOpen \/ DocxSection \/ DocxSave

SpecDocx == InitDocx /\ [][NextDocx]_vars

\* the section files in the order of the loop, and what create_docx reads
\* from the f-th of them
DocxFiles == get_section_files(disk, input.sections_dir)

DocxParsed(f) ==
    TitleAndContent(SplitLines(disk[DocxFiles[f]].text), 1, <<>>, <<>>)

\* the section file has a title and content
Composable(f) ==
    /\ DocxParsed(f).title # <<>>
    /\ DocxParsed(f).title[1] # <<>>
    /\ DocxParsed(f).en_content # <<>>

\* the human translation of the f-th section file: its .zh.md file exists
\* and, without a leading heading line, is not empty
HumanText(f) ==
    load_human_translation(disk, DocxFiles[f], input.translation_dir)

HumanAvailable(f) == HumanText(f) # <<>> /\ HumanText(f)[1] # <<>>

\* the composed output of a section: its heading and the paragraphs up to
\* the next section heading
DocHeadings == {k \in 1..Len(out) : out[k].style = "Heading 1"}

NthDocHeading(j) ==
    IF j > Cardinality(DocHeadings) THEN Len(out) + 1
    ELSE CHOOSE h \in DocHeadings :
             Cardinality({g \in DocHeadings : g <= h}) = j

DocBlock(j) == SubSeq(out, NthDocHeading(j), NthDocHeading(j + 1) - 1)

\* the b-th block of the document is the output for the f-th section file,
\* by the arm its translation selects
ArmTaken(f, b) ==
    LET texts == {DocBlock(b)[k].text : k \in 2..Len(DocBlock(b))}
    IN  /\ DocBlock(b)[1].text = DocxParsed(f).title[1]
        /\ IF HumanAvailable(f)
           THEN /\ HumanText(f)[1] \in texts
                /\ EN_REF_LABEL \in texts
                /\ PENDING_NOTE \notin texts
           ELSE /\ PENDING_NOTE \in texts
                /\ apply_glossary(DocxParsed(f).en_content, input.glossary)
                       \in texts
                /\ EN_REF_LABEL \notin texts

\* C7 (as amended): every section file read so far that has a title and
\* content has one block in the document: with the human text and without
\* the pending marker when its translation exists and is not empty, with the
\* marker and the glossary-substituted text otherwise.  A section file
\* without a title or without content has no block.
C7_OneArmPerComposedSection ==
    pc \in {"compose", "saved"} =>
        /\ Cardinality(DocHeadings) =
               Cardinality({f \in 1..idx : Composable(f)})
        /\ \A f \in 1..idx :
               Composable(f) =>
                   ArmTaken(f, Cardinality({g \in 1..f : Composable(g)}))

\* two sections composed, the first by the human arm, the second by the
\* placeholder arm although an (empty) translation file exists
C7_Witness ==
    /\ pc = "saved"
    /\ idx = 2
    /\ Composable(1) /\ HumanAvailable(1)
    /\ Composable(2) /\ HumanText(2) = <<<<>>>>
    /\ Cardinality(DocHeadings) = 2

\* C7 (as stated): every section file read so far has one block in the
\* document, by exactly one of the two arms.
C7_OneArmPerSectionFile ==
    pc \in {"compose", "saved"} =>
        /\ Cardinality(DocHeadings) = idx
        /\ \A f \in 1..idx : ArmTaken(f, f)


(***************************************************************************)
(* extract_pdf.extract_pdf                                                 *)
(* The two decoding libraries are collaborators: whether each is           *)
(* installed, what text it returns for the PDF and whether it raises are   *)
(* given by the environment.  out.trace records the calls made to the      *)
(* backends and the messages printed about them, in order.                 *)
(***************************************************************************)
JSON_FILE == Path(OUT_DIR, W_Dilithium_en, ".json")

PDF_NAME == "Dilithium-uncompressed.pdf"

\* the events of out.trace
CALL_PYMUPDF == "extract_with_pymupdf"

CALL_PDFMINER == "extract_with_pdfminer"

LOG_PYMUPDF_FAILED == "PyMuPDF extraction failed"

LOG_PYMUPDF_OK == "Extracted pages using PyMuPDF"

LOG_PDFMINER_OK == "Extracted text using pdfminer.six"

\* the RuntimeError of the branches without a usable backend
NO_LIBRARY == "No PDF extraction library available"

\* an exception raised by a backend
DECODE_ERROR == "decode error"

\* pages_data of extract_with_pymupdf: page numbers from 1, normalized text
PagesData(texts) ==
    [k \in 1..Len(texts) |-> [page |-> k, text |-> normalize_text(texts[k])]]

PageTexts(pages) == [k \in 1..Len(pages) |-> pages[k].text]

\* extract_with_pymupdf: the page texts joined by a blank line, pages_data
extract_with_pymupdf(texts) ==
    [full_text |-> Join(PageTexts(PagesData(texts)), <<NL, NL>>),
     pages_data |-> PagesData(texts)]

\* extract_with_pdfminer: the whole text normalized, as one page
extract_with_pdfminer(text) ==
    [full_text |-> normalize_text(text),
     pages_data |-> <<[page |-> 1, text |-> normalize_text(text)]>>]

ExtMaxPages == 2

\* what a backend returns for a page (or, pdfminer, for the document)
ExtTexts ==
    {<<"A", NL, "a">>, <<"a", " ", " ", "a", NL>>, <<"a", NL, "A", NL, "a">>}

ExtPageSeqs == UNION {[1..n -> ExtTexts] : n \in 0..ExtMaxPages}

NoExtraction ==
    [trace |-> <<>>, full_text |-> <<>>, pages_data |-> <<>>,
     sections |-> <<>>, error |-> ""]

InitExtract ==
    /\ pc = "ready"
    /\ input \in [PYMUPDF_AVAILABLE : BOOLEAN, PDFMINER_AVAILABLE : BOOLEAN,
                  pages : ExtPageSeqs, text : ExtTexts]
    /\ out = NoExtraction
    /\ idx = 0
    /\ disk = NoFiles

\* extract_pdf: output_dir.mkdir(parents=True, exist_ok=True)
ExtMkdir ==
    /\ pc = "ready"
    /\ disk' = WithEntry(disk, DirPath(OUT_DIR), Dir)
    /\ pc' = "backend"
    /\ UNCHANGED <<input, out, idx>>

\* the try block: extract_with_pymupdf returns
ExtPrimaryOk ==
    /\ pc = "backend"
    /\ input.PYMUPDF_AVAILABLE
    /\ out' = [out EXCEPT
                  !.trace = @ \o <<CALL_PYMUPDF, LOG_PYMUPDF_OK>>,
                  !.full_text = extract_with_pymupdf(input.pages).full_text,
                  !.pages_data = extract_with_pymupdf(input.pages).pages_data]
    /\ pc' = "extracted"
    /\ UNCHANGED <<input, idx, disk>>

\* the except block: extract_with_pymupdf raises, the failure is printed
ExtPrimaryFail ==
    /\ pc = "backend"
    /\ input.PYMUPDF_AVAILABLE
    /\ out' = [out EXCEPT
                  !.trace = @ \o <<CALL_PYMUPDF, LOG_PYMUPDF_FAILED>>]
    /\ pc' = "fallback"
    /\ UNCHANGED <<input, idx, disk>>

\* a call of extract_with_pdfminer from position p: it returns, or its
\* exception leaves extract_pdf
ExtPdfminer(p) ==
    /\ pc = p
    /\ input.PDFMINER_AVAILABLE
    /\ \/ /\ out' = [out EXCEPT
                        !.trace = @ \o <<CALL_PDFMINER, LOG_PDFMINER_OK>>,
                        !.full_text =
                            extract_with_pdfminer(input.text).full_text,
                        !.pages_data =
                            extract_with_pdfminer(input.text).pages_data]
          /\ pc' = "extracted"
       \/ /\ out' = [out EXCEPT !.trace = @ \o <<CALL_PDFMINER>>,
                                !.error = DECODE_ERROR]
          /\ pc' = "failed"
    /\ UNCHANGED <<input, idx, disk>>

\* the except block with pdfminer installed
ExtFallback ==
    /\ input.PYMUPDF_AVAILABLE
    /\ ExtPdfminer("fallback")

\* the raise left out: the missing library is passed over and the stage
\* continues with no text
ExtRaiseContinue(p) ==
    /\ pc = p
    /\ ~input.PDFMINER_AVAILABLE
    /\ out' = out
    /\ pc' = "extracted"
    /\ UNCHANGED <<input, idx, disk>>

\* raise RuntimeError
ExtRaise(p) ==
    /\ pc = p
    /\ ~input.PDFMINER_AVAILABLE
    /\ out' = [out EXCEPT !.error = NO_LIBRARY]
    /\ pc' = "failed"
    /\ UNCHANGED <<input, idx, disk>>

\* the except block without pdfminer
ExtFallbackMissing ==
    /\ input.PYMUPDF_AVAILABLE
    /\ ExtRaise("fallback")

\* elif PDFMINER_AVAILABLE
ExtSecondaryOnly ==
    /\ ~input.PYMUPDF_AVAILABLE
    /\ ExtPdfminer("backend")

\* else: no backend at all
ExtNoBackend ==
    /\ ~input.PYMUPDF_AVAILABLE
    /\ ExtRaise("backend")

\* sections = detect_sections(full_text)
ExtDetect ==
    /\ pc = "extracted"
    /\ out' = [out EXCEPT !.sections = detect_sections(out.full_text)]
    /\ pc' = "detected"
    /\ UNCHANGED <<input, idx, disk>>

\* md_output.write_text(generate_markdown(sections))
ExtWriteMarkdown ==
    /\ pc = "detected"
    /\ disk' = WithEntry(disk, MD_FILE, File(generate_markdown(out.sections)))
    /\ pc' = "md_written"
    /\ UNCHANGED <<input, out, idx>>

\* json_output.write_text(json.dumps(json_data))
ExtWriteJson ==
    /\ pc = "md_written"
    /\ disk' = WithEntry(disk, JSON_FILE,
                         JsonFile([source_file |-> PDF_NAME,
                                   total_pages |-> Len(out.pages_data),
                                   pages |-> out.pages_data,
                                   sections |-> out.sections]))
    /\ pc' = "done"
    /\ UNCHANGED <<input, out, idx>>

NextExtract ==
    \/ ExtMkdir
    \/ ExtPrimaryOk
    \/ ExtPrimaryFail
    \/ ExtFallback
    \/ ExtFallbackMissing
    \/ ExtSecondaryOnly
    \/ ExtNoBackend
    \/ ExtDetect
    \/ ExtWriteMarkdown
    \/ ExtWriteJson

SpecExtract == InitExtract /\ [][NextExtract]_vars


\* the events of the run so far
Trace == out.trace

Called(backend) == \E k \in 1..Len(Trace) : Trace[k] = backend

\* the primary backend was called, raised, and the failure was printed
PrimaryFailed ==
    /\ Len(Trace) >= 2
    /\ Trace[1] = CALL_PYMUPDF
    /\ Trace[2] = LOG_PYMUPDF_FAILED

PrimarySucceeded ==
    /\ Len(Trace) >= 2
    /\ Trace[1] = CALL_PYMUPDF
    /\ Trace[2] = LOG_PYMUPDF_OK

ArtifactWritten == MD_FILE \in DOMAIN disk \/ JSON_FILE \in DOMAIN disk

\* C11: backend fallback in extract_pdf.  A call of the primary backend is
\* followed at once by the message of its success or of its failure; after
\* a logged failure the next event is the call of the secondary backend when
\* that is installed, and otherwise the run is in its fatal state with the
\* RuntimeError; with no backend installed the run makes no call and is in
\* its fatal state; in the fatal state neither the Markdown nor the JSON
\* artifact is on disk; and the secondary backend is not called in a run
\* whose primary backend succeeded.
C11_BackendFallback ==
    /\ Called(CALL_PYMUPDF) =>
           /\ input.PYMUPDF_AVAILABLE
           /\ PrimaryFailed \/ PrimarySucceeded
    /\ pc = "fallback" => PrimaryFailed /\ Len(Trace) = 2
    /\ (PrimaryFailed /\ pc # "fallback") =>
           IF input.PDFMINER_AVAILABLE
           THEN Len(Trace) >= 3 /\ Trace[3] = CALL_PDFMINER
           ELSE /\ pc = "failed"
                /\ out.error = NO_LIBRARY
                /\ Len(Trace) = 2
    /\ (~input.PYMUPDF_AVAILABLE /\ ~input.PDFMINER_AVAILABLE
            /\ pc \notin {"ready", "backend"}) =>
           /\ pc = "failed"
           /\ out.error = NO_LIBRARY
           /\ Trace = <<>>
    /\ pc = "failed" => ~ArtifactWritten
    /\ ArtifactWritten => out.error = ""
    /\ PrimarySucceeded => ~Called(CALL_PDFMINER)

\* the primary backend raised, pdfminer is not installed: the run is fatal
\* after the output directory was made
C11_Witness ==
    /\ pc = "failed"
    /\ PrimaryFailed
    /\ ~input.PDFMINER_AVAILABLE
    /\ out.error = NO_LIBRARY
    /\ DirPath(OUT_DIR) \in DOMAIN disk
    /\ ~ArtifactWritten


(***************************************************************************)
(* Specification: detect_sections applied to a text of a few lines, enough *)
(* for lines before the first heading and two headings with lines after.   *)
(***************************************************************************)
SplitMaxLines == 5

\* the lines of the text: a heading, body lines with and without whitespace
\* at their ends, blank lines
SplitLineSet == {<<"A">>, <<"a">>, <<" ", "a", " ">>, <<>>, <<" ">>}

SplitTexts ==
    {Join(lines, <<NL>>) :
        lines \in UNION {[1..n -> SplitLineSet] : n \in 0..SplitMaxLines}}

InitSplit ==
    /\ pc = "ready"
    /\ input \in SplitTexts
    /\ out = <<>>
    /\ idx = 0
    /\ disk = NoFiles

\* extract_pdf: sections = detect_sections(full_text)
SplitSections ==
    /\ pc = "ready"
    /\ out' = detect_sections(input)
    /\ pc' = "split"
    /\ UNCHANGED <<input, idx, disk>>

NextSplit == SplitSections

SpecSplit == InitSplit /\ [][NextSplit]_vars

\* a line of whitespace only (the empty line included)
Blank(line) == \A k \in 1..Len(line) : IsSpace(line[k])

\* the positions of the heading lines among lines[1..k], in order
RECURSIVE HeadingPositions(_, _)
HeadingPositions(lines, k) ==
    IF k = 0 THEN <<>>
    ELSE IF is_section_heading(lines[k])
         THEN Append(HeadingPositions(lines, k - 1), k)
         ELSE HeadingPositions(lines, k - 1)

\* the non-heading lines that follow the j-th heading up to the next heading
\* (or the end), heads being the positions of the headings
OwnedLines(lines, heads, j) ==
    SubSeq(lines, heads[j] + 1,
           IF j < Len(heads) THEN heads[j + 1] - 1 ELSE Len(lines))

\* the positions of the lines of L that are not blank
Kept(L) == {i \in 1..Len(L) : ~Blank(L[i])}

\* content consists, line for line, of the lines of L from the first kept to
\* the last kept one: the first without its leading whitespace, the last
\* without its trailing whitespace; it is empty when no line is kept
MadeOfLines(content, L) ==
    LET K == Kept(L)
    IN  IF K = {} THEN content = <<>>
        ELSE LET a == CHOOSE x \in K : \A i \in K : x <= i
                 b == CHOOSE x \in K : \A i \in K : i <= x
                 C == SplitLines(content)
                 shown(i) ==
                     LET left == IF i = a THEN LStrip(L[i]) ELSE L[i]
                     IN  IF i = b THEN RStrip(left) ELSE left
             IN  /\ content # <<>>
                 /\ Len(C) = b - a + 1
                 /\ \A i \in a..b : C[i - a + 1] = shown(i)

\* C12: in detect_sections, for a text with at least one heading line, every
\* Section is opened by a heading line (none is titled "Document"), and the
\* content of the j-th Section consists, line for line, of the non-heading
\* lines between the j-th heading and the next one, after the trim of the
\* joined content (blank lines at either end dropped, the first kept line
\* without leading and the last without trailing whitespace).  So no line
\* before the first heading is in any content, and every non-heading line
\* after it goes to the Section of the nearest preceding heading only.
C12_LinesOwnedByNearestHeading ==
    pc = "split" =>
        LET lines == SplitLines(input)
            heads == HeadingPositions(lines, Len(lines))
        IN  heads # <<>> =>
                /\ Len(out) = Len(heads)
                /\ \A j \in 1..Len(out) :
                       /\ out[j].title # W_Document
                       /\ MadeOfLines(out[j].content,
                                      OwnedLines(lines, heads, j))

\* a line with text before the first heading, two headings, and a line with
\* text after each of them
C12_Witness ==
    /\ pc = "split"
    /\ LET lines == SplitLines(input)
           heads == HeadingPositions(lines, Len(lines))
       IN  /\ Len(heads) = 2
           /\ \E k \in 1..(heads[1] - 1) : ~Blank(lines[k])
           /\ Kept(OwnedLines(lines, heads, 1)) # {}
           /\ Kept(OwnedLines(lines, heads, 2)) # {}
           /\ Len(out) = 2
           /\ out[1].content # <<>> /\ out[2].content # <<>>

====
